---- MODULE Spec2Model ----
(***************************************************************************)
(* State-machine model of the FileUploader container of                    *)
(* components/ui/file-uploader (src/unnamed/part_001, with the earlier     *)
(* revision src/unnamed/part_000) and of its controlled use in             *)
(* src/src/app/_components/file-uploader-primitive-demo.tsx.               *)
(*                                                                         *)
(* A File object is a natural number (object identity); a preview locator  *)
(* (the string URL.createObjectURL returns) is a natural number too, and   *)
(* 0 stands for "no preview".  A drop is two steps, as react-dropzone      *)
(* delivers it: the drop (or input change) event, which takes the onDrop   *)
(* callback of the render that is current (DropBegin), and the call of     *)
(* that callback once the dropped files have been read (onDrop).  Every    *)
(* state update is followed by the re-render it causes, within the same    *)
(* action.                                                                 *)
(*                                                                         *)
(* Two specifications share the definitions.  Spec is the collection and   *)
(* its preview locators: drops, removals, the disabled prop and unmount.   *)
(* SpecView is what a render shows: the drag and dialog flags, data-state  *)
(* and the context consumers.  The two meet only in the drop event, which  *)
(* belongs to both.                                                        *)
(***************************************************************************)
EXTENDS Integers, Sequences, FiniteSets, Bags

\* ---------------------------------------------------------------- bounds
\* File objects the environment delivers over a whole behaviour.
MaxFiles == 3
\* The maxFileCount prop (react-dropzone's maxFiles): accepted files per drop.
MaxFileCount == 2
\* Drops whose files are still being read.
MaxInflight == 2
\* Revocations counted per locator; the count saturates here.
MaxRevoke == 2

FileIds == 1..MaxFiles
NoPreview == 0

VARIABLES
    mounted,            \* the container is mounted
    controlled,         \* the value prop is given (controlled mode)
    disabled,           \* the disabled prop
    uncontrolledProp,   \* useControllableState's internal state
    value,              \* the owner's state, passed as the value prop
    files,              \* `files` of the container's latest render
    preview,            \* file.preview of every File object
    nextFile,           \* the next File object the environment delivers
    nextUrl,            \* the next locator URL.createObjectURL returns
    revoked,            \* URL.revokeObjectURL calls per locator
    inflight,           \* bag of the `files` the onDrop of each drop being read closes over
    toasts,             \* the files toast.error was called for, in order
    reported,           \* argument of the latest onValueChange call
    isDragActive,
    isDragAccept,
    isDragReject,
    isFileDialogActive,
    dataState,          \* data-state of the trigger and content elements
    hook,               \* the latest useFileUploader call and its outcome
    everRejected        \* the files passed to onDrop as rejected

dragVars == <<isDragActive, isDragAccept, isDragReject, isFileDialogActive, dataState>>
urlVars == <<preview, nextUrl, revoked>>
collVars == <<uncontrolledProp, value, files, reported>>
vars == <<mounted, controlled, disabled, uncontrolledProp, value, files, preview,
          nextFile, nextUrl, revoked, inflight, toasts, reported, isDragActive,
          isDragAccept, isDragReject, isFileDialogActive, dataState, hook,
          everRejected>>

\* ------------------------------------------------------------- helpers
Range(s) == {s[i] : i \in 1..Len(s)}

\* The sequence <<a, a+1, ..., a+n-1>>: n fresh File objects.
Fresh(a, n) == [i \in 1..n |-> a + i - 1]

NoCall == [called |-> FALSE, inside |-> FALSE, threw |-> FALSE, error |-> ""]

\* ------------------------------------------------ useFileUploaderDataState
\* Variant: the accept and reject flags are tested before the active flag.
useFileUploaderDataState_AcceptFirst(active, accept, reject, dialog) ==
    IF accept THEN "drag-accept"
    ELSE IF reject THEN "drag-reject"
    ELSE IF active THEN "drag-active"
    ELSE IF dialog THEN "dialog-active"
    ELSE "undefined"

useFileUploaderDataState(active, accept, reject, dialog) ==
    IF active THEN "drag-active"
    ELSE IF accept THEN "drag-accept"
    ELSE IF reject THEN "drag-reject"
    ELSE IF dialog THEN "dialog-active"
    ELSE "undefined"

\* ---------------------------------------------------------- useFileUploader
Undefined == [defined |-> FALSE]

\* The value of FileUploaderContext.Provider in the current render.
ContextValue == [defined |-> TRUE, files |-> files, disabled |-> disabled]

\* React.useContext(FileUploaderContext): the nearest provider's value, or the
\* default of createContext (undefined) when there is no provider above.
useContext(inside) == IF inside THEN ContextValue ELSE Undefined

\* Variant: the context is returned without the check.
useFileUploader_NoCheck(context) == [threw |-> FALSE, error |-> ""]

useFileUploader(context) ==
    IF ~context.defined
    THEN [threw |-> TRUE, error |-> "useFileUploader must be used within a FileUploader"]
    ELSE [threw |-> FALSE, error |-> ""]

\* ------------------------------------------------------ effect cleanup
\* files.forEach(file => { if (file.preview) URL.revokeObjectURL(file.preview) })
RECURSIVE Cleanup(_, _, _)
Cleanup(fs, pv, rev) ==
    IF fs = <<>> THEN rev
    ELSE LET f == Head(fs)
             r == IF pv[f] # NoPreview
                  THEN [rev EXCEPT ![pv[f]] =
                            IF rev[pv[f]] < MaxRevoke THEN rev[pv[f]] + 1 ELSE MaxRevoke]
                  ELSE rev
         IN Cleanup(Tail(fs), pv, r)

Init ==
    /\ mounted = TRUE
    /\ controlled \in BOOLEAN
    /\ disabled = FALSE
    /\ uncontrolledProp = <<>>
    /\ value = <<>>
    /\ files = <<>>
    /\ preview = [f \in FileIds |-> NoPreview]
    /\ nextFile = 1
    /\ nextUrl = 1
    /\ revoked = [u \in FileIds |-> 0]
    /\ inflight = EmptyBag
    /\ toasts = <<>>
    /\ reported = <<>>
    /\ isDragActive = FALSE
    /\ isDragAccept = FALSE
    /\ isDragReject = FALSE
    /\ isFileDialogActive = FALSE
    /\ dataState = "undefined"
    /\ hook = NoCall
    /\ everRejected = {}

\* --------------------------------------------------- useControllableState
\* setFiles(next) of useControllableState, with the re-render the update causes:
\* the effect of the previous render is cleaned up (it closes over the previous
\* `files`) and the new render's `files` is next.  Controlled: onValueChange(next)
\* is called and the owner stores it (onValueChange={setFiles} of the demo).
\* Uncontrolled: the internal state is set; a state update of an unmounted
\* component is dropped.
setFiles(next) ==
    IF controlled
    THEN /\ reported' = next
         /\ value' = next
         /\ uncontrolledProp' = uncontrolledProp
         /\ files' = IF mounted THEN next ELSE files
         /\ revoked' = IF mounted THEN Cleanup(files, preview, revoked) ELSE revoked
    ELSE /\ reported' = reported
         /\ value' = value
         /\ uncontrolledProp' = IF mounted THEN next ELSE uncontrolledProp
         /\ files' = IF mounted THEN next ELSE files
         /\ revoked' = IF mounted THEN Cleanup(files, preview, revoked) ELSE revoked

\* ------------------------------------------------------------ removeFile
\* Variant: the filter predicate is inverted (file === fileToRemove).
Filter_Inverted(fs, fileToRemove) == SelectSeq(fs, LAMBDA file : file = fileToRemove)

\* files.filter((file) => file !== fileToRemove)
Filter(fs, fileToRemove) == SelectSeq(fs, LAMBDA file : file # fileToRemove)

\* Variant: the remove control ignores the disabled flag.
RemoveControlEnabled_Always == mounted

\* The remove control of an item: not rendered (part_000) or a disabled
\* button (part_001) while the container is disabled.
RemoveControlEnabled == mounted /\ ~disabled

\* A click on the remove control of an item whose value is f.
removeFile(f) ==
    /\ RemoveControlEnabled
    /\ setFiles(Filter(files, f))
    /\ UNCHANGED <<mounted, controlled, disabled, preview, nextFile, nextUrl,
                   inflight, toasts, dragVars, hook, everRejected>>

\* ---------------------------------------------------------------- onDrop
\* Dropzone handles drag, drop and dialog events only while not disabled.
DropzoneEnabled == mounted /\ ~disabled

\* The drop event (or the change event of the input): the files are read
\* asynchronously and the onDrop of the current render is called afterwards;
\* the drag and dialog flags are reset.
DropBegin ==
    /\ DropzoneEnabled
    /\ BagCardinality(inflight) < MaxInflight
    /\ inflight' = inflight (+) SetToBag({files})
    /\ isDragActive' = FALSE
    /\ isDragAccept' = FALSE
    /\ isDragReject' = FALSE
    /\ isFileDialogActive' = FALSE
    /\ dataState' = useFileUploaderDataState(FALSE, FALSE, FALSE, FALSE)
    /\ UNCHANGED <<mounted, controlled, disabled, collVars, urlVars, nextFile,
                   toasts, hook, everRejected>>

\* acceptedFiles.map(file => Object.assign(file, {preview: URL.createObjectURL(file)}))
AssignPreviews(pv, accepted, url) ==
    [f \in FileIds |-> IF \E i \in 1..Len(accepted) : accepted[i] = f
                       THEN url + (f - accepted[1])
                       ELSE pv[f]]

\* Variant: every file of the drop is appended, the rejected ones too.
NewCollection_All(captured, acceptedFiles, rejectedFiles) ==
    captured \o acceptedFiles \o rejectedFiles

\* The argument of setFiles: files ? [...files, ...newFiles] : newFiles, where
\* newFiles are the accepted files; the rejected files take no part in it.
NewCollection(captured, acceptedFiles, rejectedFiles) == captured \o acceptedFiles

\* Variant: only the first rejected file is notified.
Notify_FirstOnly(ts, rejected) == IF Len(rejected) > 0 THEN Append(ts, rejected[1]) ELSE ts

\* rejectedFiles.forEach(({ file }) => toast.error(...))
Notify(ts, rejected) == IF Len(rejected) > 0 THEN ts \o rejected ELSE ts

\* onDrop(acceptedFiles, rejectedFiles) of a drop in flight: the callback of
\* the render the drop began in, whose `files` is captured.  The files of a drop are fresh File objects; react-dropzone passes
\* at most maxFiles of them as accepted.
onDrop(captured, nAcc, nRej) ==
    /\ BagIn(captured, inflight)
    /\ nAcc + nRej >= 1
    /\ nextFile + nAcc + nRej - 1 <= MaxFiles
    /\ LET acceptedFiles == Fresh(nextFile, nAcc)
           rejectedFiles == Fresh(nextFile + nAcc, nRej)
       IN /\ preview' = AssignPreviews(preview, acceptedFiles, nextUrl)
          /\ nextUrl' = nextUrl + nAcc
          /\ setFiles(NewCollection(captured, acceptedFiles, rejectedFiles))
          /\ toasts' = Notify(toasts, rejectedFiles)
          /\ everRejected' = everRejected \cup Range(rejectedFiles)
    /\ nextFile' = nextFile + nAcc + nRej
    /\ inflight' = inflight (-) SetToBag({captured})
    /\ UNCHANGED <<mounted, controlled, disabled, dragVars, hook>>

\* --------------------------------------------------------------- unmount
\* Variant: the cleanup also empties the collection.
Unmount_ClearsFiles ==
    /\ mounted
    /\ mounted' = FALSE
    /\ revoked' = Cleanup(files, preview, revoked)
    /\ files' = <<>>
    /\ UNCHANGED <<controlled, disabled, uncontrolledProp, value, reported, preview,
                   nextFile, nextUrl, inflight, toasts, dragVars, hook, everRejected>>

\* The container unmounts: the cleanup of the latest render's effect runs.
Unmount ==
    /\ mounted
    /\ mounted' = FALSE
    /\ revoked' = Cleanup(files, preview, revoked)
    /\ UNCHANGED <<controlled, disabled, collVars, preview, nextFile, nextUrl,
                   inflight, toasts, dragVars, hook, everRejected>>

\* The owner changes the disabled prop (disabled={isUploading} in the demo).
SetDisabled(b) ==
    /\ mounted
    /\ disabled # b
    /\ disabled' = b
    /\ UNCHANGED <<mounted, controlled, collVars, urlVars, nextFile, inflight,
                   toasts, dragVars, hook, everRejected>>

\* ------------------------------------------------- drag and dialog flags
\* The flags the Dropzone render callback passes on, as react-dropzone sets
\* them: during a drag isDragActive is set, together with isDragAccept or
\* isDragReject when the dragged files are known.
DragEnter(kind) ==
    /\ DropzoneEnabled
    /\ ~isDragActive
    /\ isDragActive' = TRUE
    /\ isDragAccept' = (kind = "accept")
    /\ isDragReject' = (kind = "reject")
    /\ isFileDialogActive' = isFileDialogActive
    /\ dataState' = useFileUploaderDataState(TRUE, kind = "accept", kind = "reject",
                                             isFileDialogActive)
    /\ UNCHANGED <<mounted, controlled, disabled, collVars, urlVars, nextFile,
                   inflight, toasts, hook, everRejected>>

DragLeave ==
    /\ mounted
    /\ isDragActive
    /\ isDragActive' = FALSE
    /\ isDragAccept' = FALSE
    /\ isDragReject' = FALSE
    /\ isFileDialogActive' = isFileDialogActive
    /\ dataState' = useFileUploaderDataState(FALSE, FALSE, FALSE, isFileDialogActive)
    /\ UNCHANGED <<mounted, controlled, disabled, collVars, urlVars, nextFile,
                   inflight, toasts, hook, everRejected>>

OpenDialog ==
    /\ DropzoneEnabled
    /\ ~isFileDialogActive
    /\ isFileDialogActive' = TRUE
    /\ dataState' = useFileUploaderDataState(isDragActive, isDragAccept, isDragReject, TRUE)
    /\ UNCHANGED <<mounted, controlled, disabled, collVars, urlVars, nextFile,
                   inflight, toasts, isDragActive, isDragAccept, isDragReject,
                   hook, everRejected>>

CloseDialog ==
    /\ mounted
    /\ isFileDialogActive
    /\ isFileDialogActive' = FALSE
    /\ dataState' = useFileUploaderDataState(isDragActive, isDragAccept, isDragReject, FALSE)
    /\ UNCHANGED <<mounted, controlled, disabled, collVars, urlVars, nextFile,
                   inflight, toasts, isDragActive, isDragAccept, isDragReject,
                   hook, everRejected>>

\* ------------------------------------------------------ context consumer
\* A component that calls useFileUploader renders, below the container's
\* provider (inside) or with no provider above it.
RenderConsumer(inside) ==
    /\ inside => mounted
    /\ LET r == useFileUploader(useContext(inside))
       IN hook' = [called |-> TRUE, inside |-> inside, threw |-> r.threw,
                   error |-> r.error]
    /\ UNCHANGED <<mounted, controlled, disabled, collVars, urlVars, nextFile,
                   inflight, toasts, dragVars, everRejected>>

\* ------------------------------------------------------- specifications
\* The collection and its preview locators.
Next ==
    \/ DropBegin
    \/ \E captured \in BagToSet(inflight), nAcc \in 0..MaxFileCount, nRej \in 0..MaxFiles :
          onDrop(captured, nAcc, nRej)
    \/ \E f \in FileIds : f < nextFile /\ removeFile(f)
    \/ Unmount
    \/ \E b \in BOOLEAN : SetDisabled(b)

Spec == Init /\ [][Next]_vars

\* What a render shows: the flags, data-state and the context consumers.
NextView ==
    \/ DropBegin
    \/ \E kind \in {"accept", "reject", "none"} : DragEnter(kind)
    \/ DragLeave
    \/ OpenDialog
    \/ CloseDialog
    \/ \E inside \in BOOLEAN : RenderConsumer(inside)
    \/ \E b \in BOOLEAN : SetDisabled(b)
    \/ Unmount

SpecView == Init /\ [][NextView]_vars

\* ================================================================ claims
\* Files that were passed to onDrop as accepted: exactly those onDrop gave a
\* preview locator.
EverAccepted == {f \in FileIds : preview[f] # NoPreview}

\* The locators URL.createObjectURL has returned so far.
Created == 1..(nextUrl - 1)

\* Some drop in flight completes in this step, with nAcc accepted files.
OnDropStep(nAcc) ==
    \E captured \in BagToSet(inflight), nRej \in 0..MaxFiles : onDrop(captured, nAcc, nRej)

AnyOnDropStep == \E nAcc \in 0..MaxFileCount : OnDropStep(nAcc)

AnyRemoveStep == \E f \in FileIds : f < nextFile /\ removeFile(f)

\* C1: every onDrop with N accepted files, called while the mounted container's
\* collection holds fewer than maxFileCount entries, leaves the collection as
\* the previous collection followed by the N accepted files.
C1_DropAppends ==
    [][\A nAcc \in 0..MaxFileCount :
          (mounted /\ Len(files) < MaxFileCount /\ OnDropStep(nAcc))
              => files' = files \o Fresh(nextFile, nAcc)]_vars

\* C2: a removeFile that takes a file out of the collection leaves that file's
\* preview locator revoked exactly once, counting every revocation so far.
C2_RevokedOnce ==
    [][\A f \in FileIds :
          (f \in Range(files) /\ preview[f] # NoPreview /\ removeFile(f))
              => revoked'[preview[f]] = 1]_vars

\* C3: no entry of the collection, as rendered, as stored by the hook or as
\* stored by the owner, is a file that was passed to onDrop as rejected and
\* never as accepted.
C3_NoRejectedInCollection ==
    \A f \in Range(files) \cup Range(uncontrolledProp) \cup Range(value) :
        ~(f \in everRejected /\ f \notin EverAccepted)

C3_Witness ==
    /\ mounted
    /\ files # <<>>
    /\ everRejected # {}

\* C4: every step notifies exactly the files rejected in that step, each once:
\* an onDrop adds one toast per rejected file after the earlier toasts, and a
\* step that rejects nothing adds none.
C4_OneToastPerRejected ==
    [][LET new == everRejected' \ everRejected
       IN /\ Len(toasts') = Len(toasts) + Cardinality(new)
          /\ SubSeq(toasts', 1, Len(toasts)) = toasts
          /\ \A f \in new :
                Cardinality({i \in (Len(toasts) + 1)..Len(toasts') : toasts'[i] = f}) = 1]_vars

C4_Witness ==
    /\ Len(toasts) >= 2
    /\ files # <<>>

\* C5 as stated: no step taken while disabled changes the collection.
C5_NoChangeWhileDisabled == [][disabled => files' = files]_vars

\* C5 amended: while disabled no drop begins, and the collection changes only
\* when a drop that was already in flight completes; a click on a remove
\* control changes nothing.
C5_DisabledSuppresses ==
    [][disabled =>
          /\ BagCardinality(inflight') <= BagCardinality(inflight)
          /\ files' # files => BagCardinality(inflight') < BagCardinality(inflight)]_vars

C5_Witness ==
    /\ mounted
    /\ disabled
    /\ files # <<>>
    /\ inflight = EmptyBag

\* C6: once the container has unmounted, every locator created so far has
\* been revoked.
C6_AllReleasedAfterUnmount == ~mounted => \A u \in Created : revoked[u] >= 1

\* C7: only onDrop and removeFile change the collection (as rendered, as the
\* hook stores it, as the owner stores it); in controlled mode each of them
\* passes the resulting sequence to onValueChange, and the mounted container
\* renders the owner's value.
C7_OnlyOwnCallbacks ==
    [][/\ (files' # files \/ uncontrolledProp' # uncontrolledProp \/ value' # value)
              => (AnyOnDropStep \/ AnyRemoveStep)
       /\ (controlled /\ mounted /\ (AnyOnDropStep \/ AnyRemoveStep))
              => (reported' = files' /\ value' = files')
       /\ (controlled /\ mounted) => files = value]_vars

C7_Witness ==
    /\ controlled
    /\ mounted
    /\ Len(files) = 1
    /\ nextUrl = 3
    /\ reported = files
    /\ value = files

\* The flags that are set.
SetFlags ==
    {n \in {"drag-active", "drag-accept", "drag-reject", "dialog-active"} :
        \/ n = "drag-active" /\ isDragActive
        \/ n = "drag-accept" /\ isDragAccept
        \/ n = "drag-reject" /\ isDragReject
        \/ n = "dialog-active" /\ isFileDialogActive}

\* C8 as stated: at most one of the four flags is set, and data-state names it.
C8_FlagsExclusive ==
    /\ Cardinality(SetFlags) <= 1
    /\ \A n \in SetFlags : dataState = n

\* C8 amended: data-state names the set flag that comes first in the order
\* active, accept, reject, dialog-open, and is undefined when none is set; so
\* it names the flag that is set whenever exactly one is.
C8_DataStateByPriority ==
    /\ isDragActive => dataState = "drag-active"
    /\ (~isDragActive /\ isDragAccept) => dataState = "drag-accept"
    /\ (~isDragActive /\ ~isDragAccept /\ isDragReject) => dataState = "drag-reject"
    /\ (~isDragActive /\ ~isDragAccept /\ ~isDragReject /\ isFileDialogActive)
           => dataState = "dialog-active"
    /\ SetFlags = {} => dataState = "undefined"
    /\ Cardinality(SetFlags) = 1 => dataState \in SetFlags

C8_Witness ==
    /\ isDragActive
    /\ isDragAccept
    /\ isFileDialogActive
    /\ dataState = "drag-active"

\* C9: useFileUploader throws "useFileUploader must be used within a
\* FileUploader" when no provider is above the caller, and returns without
\* throwing when one is.
C9_FailsFastOutside ==
    hook.called =>
        /\ ~hook.inside => (hook.threw /\ hook.error =
                                "useFileUploader must be used within a FileUploader")
        /\ hook.inside => ~hook.threw

C9_Witness ==
    /\ hook.called
    /\ ~hook.inside
    /\ hook.threw

\* The i-th smallest element of a set of numbers.
Nth(S, i) == CHOOSE x \in S : Cardinality({y \in S : y < x}) = i - 1

\* C10: removeFile(f) leaves the collection without any entry f and with every
\* other entry, in the previous relative order; when f is no entry, the
\* collection keeps its entries and their order.
C10_RemoveFilters ==
    [][\A f \in FileIds :
          (f < nextFile /\ removeFile(f)) =>
              LET keep == {i \in 1..Len(files) : files[i] # f}
              IN /\ Len(files') = Cardinality(keep)
                 /\ \A j \in 1..Len(files') : files'[j] = files[Nth(keep, j)]
                 /\ f \notin Range(files) => files' = files]_vars

\* A file that was accepted is no longer in the collection, others still are,
\* and no drop is in flight.
C10_Witness ==
    /\ mounted
    /\ Len(files) = 2
    /\ nextUrl = 4
    /\ inflight = EmptyBag

\* C11: while the container is mounted, the preview locator of every entry of
\* the collection has not been revoked.
C11_LivePreviews ==
    mounted => \A f \in Range(files) :
                   preview[f] # NoPreview => revoked[preview[f]] = 0

\* C12: the collection never holds more than maxFileCount entries.
C12_CountLimit == Len(files) <= MaxFileCount

\* Files that were in a collection earlier and are in none now: removed, or
\* overwritten by another callback's write.
Gone == {f \in EverAccepted : f \notin Range(files)}

\* C13: no callback's write undoes another's.  While mounted, an onDrop keeps
\* every entry the collection holds when it is called, a removeFile(f) keeps
\* every entry but f, and a file that has left the collection never comes back.
C13_NoLostUpdate ==
    [][mounted =>
          /\ AnyOnDropStep => Range(files) \subseteq Range(files')
          /\ \A f \in FileIds :
                (f < nextFile /\ removeFile(f)) => Range(files) \ {f} \subseteq Range(files')
          /\ Gone \cap Range(files') = {}]_vars

====
